---- MODULE Spec2Model ----
(***************************************************************************)
(* Weather-risk engine of the Parade Planner: the acquisition of the daily *)
(* climate record (fetch_nasa_power_data, in its two versions              *)
(* src/backend/logic.py and src/logic.py), load_historical_data, the       *)
(* POST /api/risk handler, the heat / cold / precipitation calculators and  *)
(* the climate trend analysis.                                             *)
(*                                                                         *)
(* Temperatures and precipitation are integers in tenths of a unit         *)
(* (30.0 C is 300, 5.0 mm is 50, the -999 sentinel is -9990).              *)
(***************************************************************************)
EXTENDS Integers, Sequences, FiniteSets, TLC

VARIABLES
    pc,          \* position of the fetch_nasa_power_data call
    impl,        \* which fetch_nasa_power_data runs: "backend" or "root"
    caller,      \* "direct" (fetch called by itself) or "load" (from load_historical_data)
    args,        \* [start_year, end_year] of the fetch call
    attempt,     \* loop variable of the retry loop
    requests,    \* number of requests.get calls made (mock_get.call_count)
    waits,       \* number of time.sleep(2) calls made
    outcome,     \* outcome of the last requests.get / raise_for_status
    resp,        \* the body of the successful response
    result,      \* the DataFrame fetch_nasa_power_data returned
    mock,        \* mock_data.csv in the working directory: [exists, rows]
    load,        \* the load_historical_data call: [fn, lat, lon, month, status, data, ...]
    api,         \* the POST /api/risk call: [lat, lon, status_code]
    monthly,     \* the monthly DataFrame handed to a risk calculator
    risk,        \* the last risk calculation: [fn, activity, risk_type, out]
    trend,       \* the last analyze_climate_change_trend call: [done, out]
    planb,       \* the last Plan B endpoint call: its inputs, the generators' results, its answer
    reqs,        \* the local variables of each of the requests served concurrently
    genai        \* process-wide: GEMINI_API_KEY and what genai.configure stored

fetchVars == <<pc, impl, caller, args, attempt, requests, waits, outcome, resp, result>>
riskVars == <<monthly, risk, trend>>
vars == <<pc, impl, caller, args, attempt, requests, waits, outcome, resp, result,
          mock, load, api, monthly, risk, trend, planb, reqs, genai>>

----------------------------------------------------------------------------
(* Values *)

\* A missing value (JSON null, pandas NaN): a code outside every measurement.
None == -100000
\* NASA's missing-value sentinel -999, in tenths.
Sentinel == -9990

max_retries_one_more == 3 + 1
max_retries == 3

\* Keys of the date maps of a response, YYYYMMDD.
Dates == {20200115, 20210715}
TempValues == {None, Sentinel, 310}
PrecipValues == {None, 60}

\* datetime.strptime(date_str, '%Y%m%d') .year and .month
DateYear(d) == d \div 10000
DateMonth(d) == (d \div 100) % 100

VarNames == {"T2M_MAX", "T2M_MIN", "T2M", "PRECTOTCORR"}

\* The columns a DataFrame row of this code carries.
Row(y, m, t, p) ==
    [Year |-> y, Month |-> m, Max_Temperature_C |-> t, Precipitation_mm |-> p]

empty_df == << >>

----------------------------------------------------------------------------
(* Sequences *)

\* Order of the sort key (Year, Month).
RowLE(a, b) ==
    \/ a.Year < b.Year
    \/ a.Year = b.Year /\ a.Month <= b.Month

RECURSIVE InsertRow(_, _)
InsertRow(sorted, r) ==
    IF sorted = << >> THEN <<r>>
    ELSE IF RowLE(sorted[Len(sorted)], r) THEN Append(sorted, r)
    ELSE Append(InsertRow(SubSeq(sorted, 1, Len(sorted) - 1), r), sorted[Len(sorted)])

\* df.sort_values(['Year', 'Month']).reset_index(drop=True)
RECURSIVE sort_values(_)
sort_values(df) ==
    IF df = << >> THEN << >>
    ELSE InsertRow(sort_values(SubSeq(df, 1, Len(df) - 1)), df[Len(df)])

\* df.dropna(): rows with a null in any column are removed
dropna(df) ==
    SelectSeq(df, LAMBDA r : r.Max_Temperature_C # None /\ r.Precipitation_mm # None)

----------------------------------------------------------------------------
(* The remote service's answers *)

\* requests.get(...) and response.raise_for_status(): the call returns a 2xx
\* response, or raises a requests.exceptions.RequestException.
Outcomes == {"ok", "Timeout", "ConnectionError", "HTTPError"}

NoResp == [json |-> FALSE, keys |-> {}, hasParameter |-> FALSE, vars |-> {},
           T2M_MAX |-> << >>, PRECTOTCORR |-> << >>, T2M_MIN |-> {}, T2M |-> {}]

\* The items of a date map in the order of the JSON document: no date twice.
DateItems(values) ==
    LET Item == [date : Dates, value : values]
    IN {<< >>} \cup {<<a>> : a \in Item}
               \cup {<<p[1], p[2]>> : p \in {q \in Item \X Item : q[1].date # q[2].date}}

\* A date map as a function of its keys.
DateMaps(values) == UNION {[ds -> values] : ds \in SUBSET Dates}

\* The key sets of the variables this code never reads.
KeySets == {Dates, {20200115}}

\* Bodies with properties.parameter.
ParameterBodies ==
    {[json |-> TRUE, keys |-> k, hasParameter |-> TRUE, vars |-> vs,
      T2M_MAX |-> tm, PRECTOTCORR |-> pr, T2M_MIN |-> mn, T2M |-> av] :
        k \in {{"properties"}, {"properties", "messages"}},
        vs \in SUBSET VarNames,
        tm \in DateItems(TempValues), pr \in DateMaps(PrecipValues),
        mn \in KeySets \cup {{}}, av \in KeySets \cup {{}}}

WellFormed(r) ==
    /\ ("T2M_MAX" \notin r.vars => r.T2M_MAX = << >>)
    /\ ("PRECTOTCORR" \notin r.vars => r.PRECTOTCORR = << >>)
    /\ ("T2M_MIN" \in r.vars <=> r.T2M_MIN # {})
    /\ ("T2M" \in r.vars <=> r.T2M # {})

\* Every body response.json() is given: unparsable, without the structure,
\* an error message, or a parameter block with any of the variables.
Responses ==
    {NoResp}
    \cup {[NoResp EXCEPT !.json = TRUE, !.keys = k] :
             k \in {{}, {"message"}, {"messages", "message"}, {"properties"}}}
    \cup {r \in ParameterBodies : WellFormed(r)}

HasKey(r, k) == k \in r.keys
HasStructure(r) == HasKey(r, "properties") /\ r.hasParameter

\* parameters.get('T2M_MAX', {}) and parameters.get('PRECTOTCORR', {})
temp_data(r) == IF "T2M_MAX" \in r.vars THEN r.T2M_MAX ELSE << >>
precip_data(r) == IF "PRECTOTCORR" \in r.vars THEN r.PRECTOTCORR ELSE << >>

\* The loop over temp_data.items(): one record per date that precip_data has too.
RECURSIVE records(_, _)
records(items, precip) ==
    IF items = << >> THEN << >>
    ELSE LET it == items[Len(items)]
             rest == records(SubSeq(items, 1, Len(items) - 1), precip)
         IN IF it.date \in DOMAIN precip
            THEN Append(rest, Row(DateYear(it.date), DateMonth(it.date),
                                  it.value, precip[it.date]))
            ELSE rest

\* The DataFrame built from the records: nulls dropped, sorted.
BuildFrame(r) == sort_values(dropna(records(temp_data(r), precip_data(r))))

\* src/backend/logic.py: the body after the retry loop. Every exception of it
\* (response.json() on an unparsable body among them) is caught by the
\* function's except clause, which returns the empty frame.
fetch_parse_backend(r) ==
    IF ~r.json THEN empty_df
    ELSE IF \/ HasKey(r, "messages")
            \/ HasKey(r, "message")
            \/ (~HasKey(r, "properties") /\ ~HasStructure(r))
         THEN empty_df
    ELSE IF ~HasKey(r, "properties") \/ ~r.hasParameter THEN empty_df
    ELSE IF temp_data(r) = << >> \/ DOMAIN precip_data(r) = {} THEN empty_df
    ELSE IF records(temp_data(r), precip_data(r)) = << >> THEN empty_df
    ELSE BuildFrame(r)

\* src/logic.py: the same body raises where the backend returns the empty frame,
\* and knows no error message.
fetch_raises_root(r) ==
    \/ ~r.json
    \/ ~HasKey(r, "properties") \/ ~r.hasParameter
    \/ temp_data(r) = << >> \/ DOMAIN precip_data(r) = {}
    \/ records(temp_data(r), precip_data(r)) = << >>

----------------------------------------------------------------------------
(* Arithmetic on tenths *)

\* round(): num/den (den > 0) to the nearest integer, ties to even.
Round(num, den) ==
    LET q == num \div den
        r == num - q * den
    IN IF 2 * r < den THEN q
       ELSE IF 2 * r > den THEN q + 1
       ELSE IF q % 2 = 0 THEN q ELSE q + 1

RECURSIVE Sum(_, _)
Sum(df, col) == IF df = << >> THEN 0 ELSE df[1][col] + Sum(Tail(df), col)

RECURSIVE MaxYear(_)
MaxYear(df) ==
    IF Len(df) = 1 THEN df[1].Year
    ELSE LET m == MaxYear(Tail(df)) IN IF df[1].Year > m THEN df[1].Year ELSE m

----------------------------------------------------------------------------
(* analyze_climate_change_trend: the most recent year against the earlier ones *)

TrendZero(status) ==
    [trend_status |-> status, historical_mean |-> 0, recent_mean |-> 0, difference |-> 0]

\* analyze_climate_change_trend taking a difference of exactly 1.0 C for a
\* warming trend only.
analyze_climate_change_trend_strict(monthly_data) ==
    IF monthly_data = << >> THEN TrendZero("UNKNOWN")
    ELSE
    LET recent_year == MaxYear(monthly_data)
        recent_data == SelectSeq(monthly_data, LAMBDA r : r.Year = recent_year)
        historical_data == SelectSeq(monthly_data, LAMBDA r : r.Year < recent_year)
    IN IF historical_data = << >> \/ recent_data = << >>
       THEN TrendZero("INSUFFICIENT_DATA")
       ELSE
       LET nH == Len(historical_data)
           nR == Len(recent_data)
           sH == Sum(historical_data, "Max_Temperature_C")
           sR == Sum(recent_data, "Max_Temperature_C")
           diffNum == sR * nH - sH * nR
           diffDen == nR * nH
       IN [trend_status |->
               IF diffNum > 10 * diffDen THEN "SIGNIFICANT_WARMING"
               ELSE IF diffNum >= 5 * diffDen THEN "WARMING_TREND"
               ELSE IF diffNum <= -5 * diffDen THEN "COOLING_TREND"
               ELSE "STABLE",
           historical_mean |-> Round(10 * sH, nH),
           recent_mean |-> Round(10 * sR, nR),
           difference |-> Round(10 * diffNum, diffDen)]

\* Means and difference are in hundredths of a degree (round(x, 2)).
analyze_climate_change_trend(monthly_data) ==
    IF monthly_data = << >> THEN TrendZero("UNKNOWN")
    ELSE
    LET recent_year == MaxYear(monthly_data)
        recent_data == SelectSeq(monthly_data, LAMBDA r : r.Year = recent_year)
        historical_data == SelectSeq(monthly_data, LAMBDA r : r.Year < recent_year)
    IN IF historical_data = << >> \/ recent_data = << >>
       THEN TrendZero("INSUFFICIENT_DATA")
       ELSE
       LET nH == Len(historical_data)
           nR == Len(recent_data)
           sH == Sum(historical_data, "Max_Temperature_C")
           sR == Sum(recent_data, "Max_Temperature_C")
           \* difference = recent_mean - historical_mean, as diffNum / diffDen tenths
           diffNum == sR * nH - sH * nR
           diffDen == nR * nH
       IN [trend_status |->
               IF diffNum >= 10 * diffDen THEN "SIGNIFICANT_WARMING"
               ELSE IF diffNum >= 5 * diffDen THEN "WARMING_TREND"
               ELSE IF diffNum <= -5 * diffDen THEN "COOLING_TREND"
               ELSE "STABLE",
           historical_mean |-> Round(10 * sH, nH),
           recent_mean |-> Round(10 * sR, nR),
           difference |-> Round(10 * diffNum, diffDen)]

----------------------------------------------------------------------------
(* The risk calculators *)

\* A calculator's answer. probability is in tenths of a percent and
\* risk_threshold in tenths of a unit, both as round(x, 1) leaves them.
RiskResult(prob, thr, level, total, adverse) ==
    [raised |-> FALSE, probability |-> prob, risk_threshold |-> thr,
     risk_level |-> level, total_observations |-> total, adverse_count |-> adverse]

\* raise ValueError(...)
RiskRaised ==
    [raised |-> TRUE, probability |-> 0, risk_threshold |-> 0,
     risk_level |-> "NONE", total_observations |-> 0, adverse_count |-> 0]

\* The level ladder on the unrounded probability 100 * adverse / total.
LevelOfProbability(adverse, total) ==
    IF 100 * adverse >= 20 * total THEN "HIGH"
    ELSE IF 100 * adverse >= 10 * total THEN "MODERATE"
    ELSE IF 100 * adverse >= 5 * total THEN "LOW"
    ELSE "MINIMAL"

Column(df, col) == [i \in 1..Len(df) |-> df[i][col]]

RECURSIVE InsertInt(_, _)
InsertInt(sorted, x) ==
    IF sorted = << >> THEN <<x>>
    ELSE IF sorted[Len(sorted)] <= x THEN Append(sorted, x)
    ELSE Append(InsertInt(SubSeq(sorted, 1, Len(sorted) - 1), x), sorted[Len(sorted)])

RECURSIVE SortInts(_)
SortInts(xs) ==
    IF xs = << >> THEN << >>
    ELSE InsertInt(SortInts(SubSeq(xs, 1, Len(xs) - 1)), xs[Len(xs)])

\* np.percentile(values, 90), linear interpolation, times 10: the value at the
\* virtual index 0.9 * (n - 1) of the sorted sample.
percentile90x10(values) ==
    LET a == SortInts(values)
        n == Len(a)
        pos == 9 * (n - 1)
        lo == pos \div 10
        frac == pos % 10
        hi == IF lo + 1 <= n - 1 THEN lo + 1 ELSE n - 1
    IN 10 * a[lo + 1] + frac * (a[hi + 1] - a[lo + 1])

\* monthly_data[monthly_data['Max_Temperature_C'] > -100]
valid_temp(df) == SelectSeq(df, LAMBDA r : r.Max_Temperature_C > -1000)
\* monthly_data[monthly_data['Precipitation_mm'] >= 0]
valid_precip(df) == SelectSeq(df, LAMBDA r : r.Precipitation_mm >= 0)

\* src/backend/logic.py: heat risk against the sample's own 90th percentile.
calculate_adverse_probability(monthly_data) ==
    IF monthly_data = << >> THEN RiskRaised
    ELSE
    LET valid_temp_data == valid_temp(monthly_data)
    IN IF Len(valid_temp_data) = 0
       THEN RiskResult(0, 0, "UNKNOWN", Len(monthly_data), 0)
       ELSE
       LET risk_threshold_x10 == percentile90x10(Column(valid_temp_data, "Max_Temperature_C"))
           adverse_events == SelectSeq(valid_temp_data,
               LAMBDA r : 10 * r.Max_Temperature_C > risk_threshold_x10)
           total_observations == Len(valid_temp_data)
           adverse_count == Len(adverse_events)
           risk_level == IF risk_threshold_x10 >= 3000 THEN "HIGH"
                         ELSE IF risk_threshold_x10 >= 2500 THEN "MODERATE"
                         ELSE "LOW"
       IN RiskResult(Round(1000 * adverse_count, total_observations),
                     Round(risk_threshold_x10, 10),
                     risk_level, total_observations, adverse_count)

\* src/logic.py: heat risk against the fixed 30.0 C.
calculate_adverse_probability_root(monthly_data) ==
    IF monthly_data = << >> THEN RiskRaised
    ELSE
    LET valid_temp_data == valid_temp(monthly_data)
    IN IF Len(valid_temp_data) = 0 THEN RiskRaised
       ELSE
       LET risk_threshold == 300
           adverse_events == SelectSeq(valid_temp_data,
               LAMBDA r : r.Max_Temperature_C > risk_threshold)
           total_observations == Len(monthly_data)
           adverse_count == Len(adverse_events)
       IN RiskResult(Round(1000 * adverse_count, total_observations),
                     risk_threshold,
                     LevelOfProbability(adverse_count, total_observations),
                     total_observations, adverse_count)

calculate_precipitation_risk(monthly_data) ==
    IF monthly_data = << >> THEN RiskResult(0, 0, "UNKNOWN", 0, 0)
    ELSE
    LET valid_precip_data == valid_precip(monthly_data)
    IN IF Len(valid_precip_data) = 0 THEN RiskResult(0, 0, "UNKNOWN", 0, 0)
       ELSE
       LET precip_threshold == 50
           adverse_count == Len(SelectSeq(valid_precip_data,
               LAMBDA r : r.Precipitation_mm > precip_threshold))
           total_observations == Len(monthly_data)
       IN RiskResult(Round(1000 * adverse_count, total_observations),
                     precip_threshold,
                     LevelOfProbability(adverse_count, total_observations),
                     total_observations, adverse_count)

\* The table of get_seasonal_cold_threshold, month by month, in tenths.
seasonal_adjustments ==
    LET T(b, be, p, r, g) ==
            [base |-> b, beach |-> be, picnic |-> p, running |-> r, general |-> g]
    IN << T(200, 220, 180, 160, 200),   \* 1
          T(200, 220, 180, 160, 200),   \* 2
          T(200, 230, 180, 160, 200),   \* 3
          T(180, 210, 160, 140, 180),   \* 4
          T(160, 190, 140, 120, 160),   \* 5
          T(140, 170, 120, 100, 140),   \* 6
          T(140, 170, 120, 100, 140),   \* 7
          T(140, 170, 120, 100, 140),   \* 8
          T(160, 190, 140, 120, 160),   \* 9
          T(180, 210, 160, 140, 180),   \* 10
          T(200, 230, 180, 160, 200),   \* 11
          T(200, 220, 180, 160, 200) >> \* 12

get_seasonal_cold_threshold(month, activity) ==
    LET month_data == IF month \in DOMAIN seasonal_adjustments
                      THEN seasonal_adjustments[month]
                      ELSE seasonal_adjustments[1]
    IN IF activity \in DOMAIN month_data THEN month_data[activity]
       ELSE month_data["general"]

\* calculate_cold_risk counting the days at the threshold as cold.
calculate_cold_risk_at_threshold(monthly_data, activity) ==
    IF monthly_data = << >> THEN RiskResult(0, 0, "UNKNOWN", 0, 0)
    ELSE
    LET valid_temp_data == valid_temp(monthly_data)
    IN IF Len(valid_temp_data) = 0 THEN RiskResult(0, 0, "UNKNOWN", 0, 0)
       ELSE
       LET month == monthly_data[1].Month
           cold_threshold == get_seasonal_cold_threshold(month, activity)
           cold_events == SelectSeq(valid_temp_data,
               LAMBDA r : r.Max_Temperature_C <= cold_threshold)
           total_observations == Len(monthly_data)
           cold_count == Len(cold_events)
       IN RiskResult(Round(1000 * cold_count, total_observations),
                     cold_threshold,
                     LevelOfProbability(cold_count, total_observations),
                     total_observations, cold_count)

\* calculate_cold_risk with the total taken over the valid rows while the cold
\* days are still counted on the whole frame, sentinel rows included.
calculate_cold_risk_unfiltered_count(monthly_data, activity) ==
    IF monthly_data = << >> THEN RiskResult(0, 0, "UNKNOWN", 0, 0)
    ELSE
    LET valid_temp_data == valid_temp(monthly_data)
    IN IF Len(valid_temp_data) = 0 THEN RiskResult(0, 0, "UNKNOWN", 0, 0)
       ELSE
       LET month == monthly_data[1].Month
           cold_threshold == get_seasonal_cold_threshold(month, activity)
           cold_events == SelectSeq(monthly_data,
               LAMBDA r : r.Max_Temperature_C < cold_threshold)
           total_observations == Len(valid_temp_data)
           cold_count == Len(cold_events)
       IN RiskResult(Round(1000 * cold_count, total_observations),
                     cold_threshold,
                     LevelOfProbability(cold_count, total_observations),
                     total_observations, cold_count)

calculate_cold_risk(monthly_data, activity) ==
    IF monthly_data = << >> THEN RiskResult(0, 0, "UNKNOWN", 0, 0)
    ELSE
    LET valid_temp_data == valid_temp(monthly_data)
    IN IF Len(valid_temp_data) = 0 THEN RiskResult(0, 0, "UNKNOWN", 0, 0)
       ELSE
       LET month == monthly_data[1].Month
           cold_threshold == get_seasonal_cold_threshold(month, activity)
           cold_events == SelectSeq(valid_temp_data,
               LAMBDA r : r.Max_Temperature_C < cold_threshold)
           total_observations == Len(monthly_data)
           cold_count == Len(cold_events)
       IN RiskResult(Round(1000 * cold_count, total_observations),
                     cold_threshold,
                     LevelOfProbability(cold_count, total_observations),
                     total_observations, cold_count)

\* calculate_weather_risk with an unknown risk type taken for heat.
calculate_weather_risk_default_heat(monthly_data, risk_type, activity) ==
    IF risk_type = "cold" THEN calculate_cold_risk(monthly_data, activity)
    ELSE IF risk_type = "precipitation" THEN calculate_precipitation_risk(monthly_data)
    ELSE calculate_adverse_probability(monthly_data)

\* The unified calculator compute_risk(monthly_dataset, hazard): one of the
\* three calculations by the hazard asked for, ValueError for any other.
calculate_weather_risk(monthly_data, risk_type, activity) ==
    IF risk_type = "heat" THEN calculate_adverse_probability(monthly_data)
    ELSE IF risk_type = "cold" THEN calculate_cold_risk(monthly_data, activity)
    ELSE IF risk_type = "precipitation" THEN calculate_precipitation_risk(monthly_data)
    ELSE RiskRaised

----------------------------------------------------------------------------
(* The environment *)

\* datetime.now().year
CurrentYear == 2026

\* mock_data.csv: absent, or a record of the reference location.
MockRows == <<Row(2020, 1, 280, 0), Row(2021, 1, 290, 60)>>
MockStores == {[exists |-> FALSE, rows |-> << >>], [exists |-> TRUE, rows |-> MockRows]}

\* The year ranges a direct caller asks for: start_year <= end_year.
YearRanges == {[start_year |-> 2020, end_year |-> 2021],
               [start_year |-> 2022, end_year |-> 2023]}

Lats == {-91, -90, 91}
Lons == {-181, 180}
LoadMonths == {1, 7}
\* The years of the date_str a caller passes: this year and the next.
TargetYears == {CurrentYear, CurrentYear + 1}

NoLoad == [fn |-> "none", lat |-> 0, lon |-> 0, month |-> 0, year |-> 0, status |-> "none", raised |-> FALSE,
           data |-> empty_df, climate_trend |-> TrendZero("UNKNOWN")]
NoApi == [lat |-> 0, lon |-> 0, status_code |-> 0]
NoTrend == [done |-> FALSE, out |-> TrendZero("UNKNOWN")]
NoRisk == [fn |-> "none", activity |-> "none", risk_type |-> "none", out |-> RiskRaised]

\* The fixed frame POST /api/risk analyses.
ApiTestData ==
    << Row(2020, 3, 255, 52), Row(2021, 3, 262, 38), Row(2022, 3, 271, 41),
       Row(2023, 3, 283, 67), Row(2024, 3, 290, 23) >>

----------------------------------------------------------------------------
(* Plan B: generate_plan_b_with_gemini, generate_fallback_plan_b and the two
   endpoints that call them (src/backend/logic.py, src/backend/api.py) *)

\* The longest list of alternatives in a JSON answer of the model and the
\* largest number of lines of a text answer that hold one of the keywords
\* parse_fallback_response looks for.
MaxAlternatives == 4
MaxKeywordLines == 5

\* An entry of the "alternatives" list of a JSON answer: a dict with a
\* title, a dict without one, something that is not a dict.
GeminiItems == {"titled", "untitled", "notdict"}

\* What model.generate_content returned. kind "json": the text between the
\* first { and the last } parses, is_list tells whether its "alternatives"
\* is a list; kind "text": it does not parse; text_raises: reading
\* response.text raises ValueError. keyword_lines counts the lines outside
\* the braces that hold a keyword.
GeminiResponse(kind, text_raises, is_list, alternatives, keyword_lines) ==
    [kind |-> kind, text_raises |-> text_raises, is_list |-> is_list,
     alternatives |-> alternatives, keyword_lines |-> keyword_lines]

GeminiResponses ==
    {GeminiResponse("json", FALSE, TRUE, a, n) :
        a \in UNION {[1..k -> GeminiItems] : k \in 0..MaxAlternatives}, n \in {0, 1}}
    \cup {GeminiResponse("json", FALSE, FALSE, << >>, n) : n \in {0, 1}}
    \cup {GeminiResponse("text", FALSE, FALSE, << >>, n) : n \in 0..MaxKeywordLines}
    \cup {GeminiResponse("text", TRUE, FALSE, << >>, 0)}

\* What the generator finds around it: the google.generativeai package
\* (GEMINI_AVAILABLE), GEMINI_API_KEY, whether generate_content raises, and
\* its answer.
NoGeminiResponse == GeminiResponse("text", FALSE, FALSE, << >>, 0)

GeminiEnvs ==
    {[available |-> FALSE, api_key |-> "", call |-> "none", response |-> NoGeminiResponse],
     [available |-> TRUE, api_key |-> "", call |-> "none", response |-> NoGeminiResponse],
     [available |-> TRUE, api_key |-> "key", call |-> "error", response |-> NoGeminiResponse]}
    \cup {[available |-> TRUE, api_key |-> "key", call |-> "ok", response |-> r] :
            r \in GeminiResponses}

\* A generator's result: whether it raised, 'success', the titles of
\* 'alternatives'.
PlanResult(success, alternatives) ==
    [raised |-> FALSE, success |-> success, alternatives |-> alternatives]

PlanRaised == [raised |-> TRUE, success |-> FALSE, alternatives |-> << >>]

NotCalled == [raised |-> FALSE, success |-> FALSE, alternatives |-> << >>]

\* parse_fallback_response: one alternative for each keyword line, at most 4.
parse_fallback_response(response) ==
    LET n == IF response.keyword_lines < 4 THEN response.keyword_lines ELSE 4
    IN [i \in 1..n |-> "Visit the museum"]

\* The inner try block of generate_plan_b_with_gemini: the validated
\* alternatives of a JSON answer, or "ValueError" when there is no JSON, no
\* list, an empty list or no entry with a title.
validated_alternatives(response) ==
    LET titled == SelectSeq(response.alternatives, LAMBDA a : a = "titled")
    IN [i \in 1..Len(titled) |-> "Thermal Baths Day"]

JsonAccepted(response) ==
    /\ response.kind = "json"
    /\ response.is_list
    /\ Len(response.alternatives) > 0
    /\ Len(validated_alternatives(response)) > 0

\* generate_plan_b_with_gemini without its outer except clause: what the
\* parsing raises reaches the caller.
generate_plan_b_with_gemini_raising(env) ==
    IF ~env.available THEN PlanResult(FALSE, << >>)
    ELSE IF env.api_key = "" THEN PlanResult(FALSE, << >>)
    ELSE IF env.call = "error" THEN PlanResult(FALSE, << >>)
    ELSE IF env.response.text_raises THEN PlanRaised
    ELSE IF JsonAccepted(env.response)
         THEN PlanResult(TRUE, validated_alternatives(env.response))
         ELSE LET alternatives == parse_fallback_response(env.response)
              IN IF Len(alternatives) > 0 THEN PlanResult(TRUE, alternatives)
                 ELSE PlanRaised

\* generate_plan_b_with_gemini(activity, weather_condition, risk_level, ...):
\* the result depends on what the generator finds around it only. A
\* ValueError of the inner try block sends the text to
\* parse_fallback_response; one raised there, or by reading response.text,
\* ends in the outer except clause, which returns success False.
generate_plan_b_with_gemini(env) ==
    IF ~env.available THEN PlanResult(FALSE, << >>)
    ELSE IF env.api_key = "" THEN PlanResult(FALSE, << >>)
    ELSE IF env.call = "error" THEN PlanResult(FALSE, << >>)
    ELSE IF env.response.text_raises THEN PlanResult(FALSE, << >>)
    ELSE IF JsonAccepted(env.response)
         THEN PlanResult(TRUE, validated_alternatives(env.response))
         ELSE LET alternatives == parse_fallback_response(env.response)
              IN IF Len(alternatives) > 0 THEN PlanResult(TRUE, alternatives)
                 ELSE PlanResult(FALSE, << >>)

\* The table of generate_fallback_plan_b, by activity and weather condition.
fallback_alternatives ==
    [beach |-> [cold |-> <<"Indoor Pool Complex", "Museo del Mar", "Thermal Baths">>,
                rainy |-> <<"Shopping Mall", "Cinema Complex">>],
     picnic |-> [cold |-> <<"Indoor Food Market", "Cooking Class">>,
                 rainy |-> <<"Restaurant Tour">>],
     running |-> [cold |-> <<"Indoor Gym", "Shopping Mall Walking">>,
                  rainy |-> <<"Indoor Sports Complex">>]]

\* generate_fallback_plan_b(activity, weather_condition, ...): the entry of
\* the table, or the two general alternatives when there is none.
generate_fallback_plan_b(activity, weather_condition) ==
    LET alternatives ==
            IF activity \in DOMAIN fallback_alternatives
               /\ weather_condition \in DOMAIN fallback_alternatives[activity]
            THEN fallback_alternatives[activity][weather_condition]
            ELSE << >>
    IN PlanResult(TRUE,
           IF alternatives = << >>
           THEN <<"Museo Nacional de Artes Visuales", "Teatro Solis">>
           ELSE alternatives)

\* The inputs of the endpoints.
PlanRiskLevels == {"MINIMAL", "LOW", "MODERATE", "HIGH", "high"}
PlanActivities == {"beach", "picnic", "running", "hiking"}
WeatherConditions == {{}, {"wet"}, {"hot"}, {"cold"}, {"rainy", "cold"}, {"windy"}}
MaxRiskValues == {4, 5, 15, 30}

NoPlanB ==
    [endpoint |-> "none", risk_level |-> "none", activity |-> "none",
     weather_condition |-> "none", env |-> CHOOSE e \in GeminiEnvs : ~e.available,
     gemini_called |-> FALSE, gemini |-> NotCalled,
     fallback_called |-> FALSE, fallback |-> NotCalled,
     success |-> FALSE, items |-> << >>]

\* The placeholder get_plan_b pads with: f"Alternative {n}".
PlaceholderName(n) ==
    IF n = 1 THEN "Alternative 1" ELSE IF n = 2 THEN "Alternative 2" ELSE "Alternative 3"

\* get_plan_b: the names of the alternatives, padded to at least 3.
formatted_suggestions(alternatives) ==
    IF Len(alternatives) >= 3 THEN alternatives
    ELSE [n \in 1..3 |-> IF n <= Len(alternatives) THEN alternatives[n]
                         ELSE PlaceholderName(n)]

\* get_plan_b without the padding loop.
get_plan_b_suggestions_unpadded(alternatives) ==
    SubSeq(alternatives, 1, IF Len(alternatives) < 3 THEN Len(alternatives) ELSE 3)

\* get_plan_b: formatted_suggestions[:3]
get_plan_b_suggestions(alternatives) ==
    SubSeq(formatted_suggestions(alternatives), 1, 3)

\* What both endpoints do with the generators: the Gemini generator first,
\* the fallback when it did not succeed; an exception of the generator ends
\* in the endpoint's except clause.
GeneratePlan(call, env) ==
    LET gemini == generate_plan_b_with_gemini(env)
        fallback == IF gemini.raised \/ gemini.success THEN NotCalled
                    ELSE generate_fallback_plan_b(call.activity, call.weather_condition)
    IN [call EXCEPT !.env = env,
                    !.gemini_called = TRUE, !.gemini = gemini,
                    !.fallback_called = ~gemini.raised /\ ~gemini.success,
                    !.fallback = fallback]

\* POST /planb, get_plan_b(risk_data).
get_plan_b ==
    /\ planb.endpoint = "none"
    /\ \E risk_level \in PlanRiskLevels, activity \in PlanActivities, env \in GeminiEnvs :
         LET call == [NoPlanB EXCEPT !.endpoint = "planb", !.risk_level = risk_level,
                                     !.activity = activity]
         IN IF risk_level \notin {"MODERATE", "HIGH"}
            THEN planb' = [call EXCEPT !.success = TRUE, !.items = << >>]
            ELSE LET generated == GeneratePlan([call EXCEPT !.weather_condition = "adverse"],
                                               env)
                     plan_b_result == IF generated.fallback_called THEN generated.fallback
                                      ELSE generated.gemini
                 IN IF generated.gemini.raised
                    THEN planb' = [generated EXCEPT !.success = FALSE, !.items = << >>]
                    ELSE planb' = [generated EXCEPT
                                      !.success = TRUE,
                                      !.items = get_plan_b_suggestions(
                                                    plan_b_result.alternatives)]
    /\ UNCHANGED <<fetchVars, mock, load, api, monthly, risk, trend, reqs, genai>>

\* regenerate_plan_b: the primary condition of the request's list.
primary_condition(weather_conditions) ==
    IF "wet" \in weather_conditions \/ "rainy" \in weather_conditions THEN "rainy"
    ELSE IF "hot" \in weather_conditions THEN "hot"
    ELSE IF "cold" \in weather_conditions THEN "cold"
    ELSE "adverse"

\* regenerate_plan_b: the level of the largest of the three risks.
PlanRiskLevel(max_risk) ==
    IF max_risk >= 30 THEN "HIGH"
    ELSE IF max_risk >= 15 THEN "MODERATE"
    ELSE IF max_risk >= 5 THEN "LOW"
    ELSE "MINIMAL"

\* POST /api/regenerate-plan-b, regenerate_plan_b(request).
regenerate_plan_b ==
    /\ planb.endpoint = "none"
    /\ \E activity \in PlanActivities, weather_conditions \in WeatherConditions,
          max_risk \in MaxRiskValues, env \in GeminiEnvs :
         LET call == [NoPlanB EXCEPT !.endpoint = "regenerate",
                                     !.risk_level = PlanRiskLevel(max_risk),
                                     !.activity = activity,
                                     !.weather_condition =
                                         primary_condition(weather_conditions)]
             generated == GeneratePlan(call, env)
             plan_b == IF generated.fallback_called THEN generated.fallback
                       ELSE generated.gemini
         IN IF generated.gemini.raised
            THEN planb' = [generated EXCEPT !.success = FALSE, !.items = << >>]
            ELSE planb' = [generated EXCEPT !.success = plan_b.success,
                                            !.items = plan_b.alternatives]
    /\ UNCHANGED <<fetchVars, mock, load, api, monthly, risk, trend, reqs, genai>>

----------------------------------------------------------------------------
(* Requests served concurrently: the values *)

Requesters == {1, 2}

\* The local variables of a request that has not run: its kind ("load": the
\* acquisition, month filter, risk and trend pipeline; "planb": Plan B), its
\* inputs, and what each step of it leaves in a local variable.
NoRequest ==
    [kind |-> "none", pc |-> "none", month |-> 0, activity |-> "none",
     resp |-> NoResp, df |-> empty_df, monthly_data |-> empty_df,
     risk |-> RiskRaised, trend |-> TrendZero("UNKNOWN"),
     api_key |-> "", env |-> CHOOSE e \in GeminiEnvs : ~e.available,
     plan_b |-> NotCalled]

NoRequests == [q \in Requesters |-> NoRequest]

\* GEMINI_API_KEY of the process environment, and the key genai.configure
\* stored in the package.
NoGenai == [env_key |-> "", api_key |-> ""]

\* The Plan B endpoints by themselves.
InitPlanB ==
    /\ pc = "idle"
    /\ impl = "backend"
    /\ caller = "none"
    /\ args = [start_year |-> 0, end_year |-> 0]
    /\ attempt = 0
    /\ requests = 0
    /\ waits = 0
    /\ outcome = "none"
    /\ resp = NoResp
    /\ result = empty_df
    /\ mock = [exists |-> FALSE, rows |-> << >>]
    /\ load = NoLoad
    /\ api = NoApi
    /\ monthly = empty_df
    /\ risk = NoRisk
    /\ trend = NoTrend
    /\ planb = NoPlanB
    /\ reqs = NoRequests
    /\ genai = NoGenai

NextPlanB ==
    \/ get_plan_b
    \/ regenerate_plan_b

SpecPlanB == InitPlanB /\ [][NextPlanB]_vars

----------------------------------------------------------------------------
(* fetch_nasa_power_data *)

Idle == pc = "idle" /\ load.status = "none" /\ api.status_code = 0

\* A caller calls fetch_nasa_power_data(lat, lon, start_year, end_year).
FetchCall ==
    /\ Idle
    /\ \E i \in {"backend", "root"}, a \in YearRanges :
         /\ impl' = i
         /\ args' = a
    /\ caller' = "direct"
    /\ pc' = "request"
    /\ attempt' = 0
    /\ UNCHANGED <<requests, waits, outcome, resp, result, mock, load, api, monthly, risk, trend, planb, reqs, genai>>

\* One pass of the retry loop that sleeps after every failed attempt, the last
\* one included, before it gives up.
RequestSleepsAfterLastFailure ==
    /\ pc = "request"
    /\ \E o \in Outcomes :
         /\ outcome' = o
         /\ requests' = requests + 1
         /\ IF o = "ok" THEN pc' = "parse" /\ UNCHANGED <<result, waits>>
            ELSE IF attempt = max_retries - 1
                 THEN /\ waits' = waits + 1
                      /\ IF impl = "backend"
                         THEN pc' = "done" /\ result' = empty_df
                         ELSE pc' = "fallback" /\ UNCHANGED result
                 ELSE pc' = "sleep" /\ UNCHANGED <<result, waits>>
    /\ UNCHANGED <<impl, caller, args, attempt, resp, mock, load, api, monthly, risk, trend, planb, reqs, genai>>

\* One pass of the retry loop: requests.get and raise_for_status. Success
\* breaks out of the loop; a RequestException on the last attempt gives up
\* (the backend returns the empty frame, src/logic.py raises into its own
\* except clause); an earlier one goes on to sleep.
Request ==
    /\ pc = "request"
    /\ \E o \in Outcomes :
         /\ outcome' = o
         /\ requests' = requests + 1
         /\ IF o = "ok" THEN pc' = "parse" /\ UNCHANGED result
            ELSE IF attempt = max_retries - 1
                 THEN IF impl = "backend"
                      THEN pc' = "done" /\ result' = empty_df
                      ELSE pc' = "fallback" /\ UNCHANGED result
                 ELSE pc' = "sleep" /\ UNCHANGED result
    /\ UNCHANGED <<impl, caller, args, attempt, waits, resp, mock, load, api, monthly, risk, trend, planb, reqs, genai>>

\* time.sleep(2), then the next pass of the loop.
Sleep ==
    /\ pc = "sleep"
    /\ waits' = waits + 1
    /\ attempt' = attempt + 1
    /\ pc' = "request"
    /\ UNCHANGED <<impl, caller, args, requests, outcome, resp, result, mock, load, api,
                   monthly, risk, trend, planb, reqs, genai>>

\* The body of the response is parsed and turned into a frame.
Parse ==
    /\ pc = "parse"
    /\ \E r \in Responses :
         /\ resp' = r
         /\ IF impl = "backend"
            THEN pc' = "done" /\ result' = fetch_parse_backend(r)
            ELSE IF fetch_raises_root(r)
                 THEN pc' = "fallback" /\ UNCHANGED result
                 ELSE pc' = "done" /\ result' = BuildFrame(r)
    /\ UNCHANGED <<impl, caller, args, attempt, requests, waits, outcome, mock, load, api,
                   monthly, risk, trend, planb, reqs, genai>>

\* src/logic.py, except clause: pd.read_csv('mock_data.csv'); FileNotFoundError
\* becomes an Exception raised to the caller.
Fallback ==
    /\ pc = "fallback"
    /\ IF mock.exists
       THEN pc' = "done" /\ result' = mock.rows
       ELSE pc' = "raised" /\ UNCHANGED result
    /\ UNCHANGED <<impl, caller, args, attempt, requests, waits, outcome, resp, mock, load,
                   api, monthly, risk, trend, planb, reqs, genai>>

----------------------------------------------------------------------------
(* load_historical_data (src/backend/logic.py) *)

ValidCoordinates(lat, lon) == -90 <= lat /\ lat <= 90 /\ -180 <= lon /\ lon <= 180

\* df[df['Month'] <= month_filter]: the months up to the one asked for.
month_filter_up_to(df, month) == SelectSeq(df, LAMBDA r : r.Month <= month)

\* df[df['Month'] == month_filter]
month_filter(df, month) == SelectSeq(df, LAMBDA r : r.Month = month)

\* The except clause of load_historical_data: every exception ends here.
LoadAbsorbed(l) ==
    [l EXCEPT !.status = "returned", !.raised = FALSE, !.data = empty_df,
              !.climate_trend = analyze_climate_change_trend(empty_df)]

\* load_historical_data(lat, lon, date_str) up to its call of fetch_nasa_power_data:
\* the ValueError of the coordinate check is caught by the function itself.
LoadCall ==
    /\ Idle
    /\ \E lat \in Lats, lon \in Lons, m \in LoadMonths, y \in TargetYears :
         LET l == [NoLoad EXCEPT !.fn = "load_historical_data",
                                 !.lat = lat, !.lon = lon, !.month = m, !.year = y]
         IN IF ~ValidCoordinates(lat, lon)
            THEN /\ load' = LoadAbsorbed(l)
                 /\ UNCHANGED <<pc, impl, caller, args, attempt>>
            ELSE /\ load' = [l EXCEPT !.status = "fetching"]
                 /\ pc' = "request"
                 /\ impl' = "backend"
                 /\ caller' = "load"
                 /\ args' = [start_year |-> CurrentYear - 20, end_year |-> CurrentYear]
                 /\ attempt' = 0
    /\ UNCHANGED <<requests, waits, outcome, resp, result, mock, api, monthly, risk, trend, planb, reqs, genai>>

\* load_historical_data after fetch_nasa_power_data returned: the month filter,
\* the ValueError on an empty month (caught as well), the trend.
LoadReturn ==
    /\ pc = "done" /\ caller = "load" /\ load.status = "fetching"
    /\ load.fn = "load_historical_data"
    /\ LET monthly_data == month_filter(result, load.month)
       IN IF monthly_data = << >>
          THEN load' = LoadAbsorbed(load)
          ELSE load' = [load EXCEPT !.status = "returned", !.data = monthly_data,
                           !.climate_trend = analyze_climate_change_trend(monthly_data)]
    /\ UNCHANGED <<fetchVars, mock, api, monthly, risk, trend, planb, reqs, genai>>

\* load_historical_data_by_date(lat, lon, date_str) up to its call of
\* fetch_nasa_power_data(lat, lon, 2005, date_obj.year): no check of the
\* coordinates.
LoadByDateCall ==
    /\ Idle
    /\ \E lat \in Lats, lon \in Lons, m \in LoadMonths, y \in TargetYears :
         /\ load' = [NoLoad EXCEPT !.fn = "load_historical_data_by_date",
                                   !.lat = lat, !.lon = lon, !.month = m, !.year = y,
                                   !.status = "fetching"]
         /\ args' = [start_year |-> 2005, end_year |-> y]
    /\ pc' = "request"
    /\ impl' = "backend"
    /\ caller' = "load"
    /\ attempt' = 0
    /\ UNCHANGED <<requests, waits, outcome, resp, result, mock, api, monthly, risk, trend, planb, reqs, genai>>

\* load_historical_data_by_date after the fetch: an empty frame for an empty
\* fetch and for a month without rows, the rows of the month otherwise.
LoadByDateReturn ==
    /\ pc = "done" /\ caller = "load" /\ load.status = "fetching"
    /\ load.fn = "load_historical_data_by_date"
    /\ LET monthly_data == month_filter(result, load.month)
       IN load' = [load EXCEPT !.status = "returned",
                               !.data = IF result = empty_df \/ monthly_data = << >>
                                        THEN empty_df ELSE monthly_data]
    /\ UNCHANGED <<fetchVars, mock, api, monthly, risk, trend, planb, reqs, genai>>

\* src/logic.py, load_historical_data(month_filter, lat, lon) up to its call
\* of fetch_nasa_power_data: the ValueError of a month outside 1..12 or of a
\* coordinate out of range is caught by the function itself.
LoadRootCall ==
    /\ Idle
    /\ \E lat \in Lats, lon \in Lons, m \in LoadMonths \cup {13} :
         LET l == [NoLoad EXCEPT !.fn = "load_historical_data_root",
                                 !.lat = lat, !.lon = lon, !.month = m]
         IN IF m < 1 \/ m > 12 \/ ~ValidCoordinates(lat, lon)
            THEN /\ load' = [l EXCEPT !.status = "returned", !.data = empty_df]
                 /\ UNCHANGED <<pc, impl, caller, args, attempt>>
            ELSE /\ load' = [l EXCEPT !.status = "fetching"]
                 /\ pc' = "request"
                 /\ impl' = "root"
                 /\ caller' = "load"
                 /\ args' = [start_year |-> CurrentYear - 20, end_year |-> CurrentYear]
                 /\ attempt' = 0
    /\ UNCHANGED <<requests, waits, outcome, resp, result, mock, api, monthly, risk, trend, planb, reqs, genai>>

\* src/logic.py, load_historical_data after the fetch: the month filter; the
\* ValueError of an empty month and the Exception fetch_nasa_power_data
\* raised both end in the except clause, which returns the empty frame.
LoadRootReturn ==
    /\ pc \in {"done", "raised"} /\ caller = "load" /\ load.status = "fetching"
    /\ load.fn = "load_historical_data_root"
    /\ LET monthly_data == month_filter(result, load.month)
       IN load' = [load EXCEPT !.status = "returned",
                               !.data = IF pc = "raised" \/ monthly_data = << >>
                                        THEN empty_df ELSE monthly_data]
    /\ UNCHANGED <<fetchVars, mock, api, monthly, risk, trend, planb, reqs, genai>>

----------------------------------------------------------------------------
(* POST /api/risk (src/backend/api.py) *)

\* The handler never looks at the coordinates: it analyses ApiTestData, and
\* answers 500 only when a calculation raises.
get_risk_analysis ==
    /\ Idle
    /\ \E lat \in Lats, lon \in Lons :
         LET risk_analysis == calculate_adverse_probability(ApiTestData)
         IN api' = [lat |-> lat, lon |-> lon,
                    status_code |-> IF risk_analysis.raised THEN 500 ELSE 200]
    /\ UNCHANGED <<fetchVars, mock, load, monthly, risk, trend, planb, reqs, genai>>

----------------------------------------------------------------------------
Init ==
    /\ pc = "idle"
    /\ impl = "backend"
    /\ caller = "none"
    /\ args = [start_year |-> 0, end_year |-> 0]
    /\ attempt = 0
    /\ requests = 0
    /\ waits = 0
    /\ outcome = "none"
    /\ resp = NoResp
    /\ result = empty_df
    /\ mock \in MockStores
    /\ load = NoLoad
    /\ api = NoApi
    /\ monthly = << >>
    /\ risk = NoRisk
    /\ trend = NoTrend
    /\ planb = NoPlanB
    /\ reqs = NoRequests
    /\ genai = NoGenai

Next ==
    \/ FetchCall
    \/ Request
    \/ Sleep
    \/ Parse
    \/ Fallback
    \/ LoadCall
    \/ LoadReturn
    \/ LoadByDateCall
    \/ LoadByDateReturn
    \/ LoadRootCall
    \/ LoadRootReturn
    \/ get_risk_analysis

Spec == Init /\ [][Next]_vars

----------------------------------------------------------------------------
(* The risk calculators on the monthly frames a caller can hand them *)

MaxRows == 3

\* Maximum temperatures around the thresholds (14.0 and 30.0 C) and the
\* sentinel, which fetch_nasa_power_data leaves in the frame; precipitation
\* around 5.0 mm likewise.
RiskTemps == {Sentinel, 139, 140, 300, 301}
RiskPrecips == {Sentinel, 50, 51}
RiskMonths == {1, 7}
Activities == {"beach", "picnic", "running", "general"}

\* The rows of month m: every temperature beside a rainy day, every
\* precipitation beside a 30.0 C day, and the row of two sentinels.
RiskRows(m) ==
    {Row(2020, m, t, 51) : t \in RiskTemps}
    \cup {Row(2020, m, 300, p) : p \in RiskPrecips}
    \cup {Row(2020, m, Sentinel, Sentinel)}

\* The frames of one calendar month with at most MaxRows rows.
MonthlyFrames == UNION {[1..n -> RiskRows(m)] : n \in 0..MaxRows, m \in RiskMonths}

CalcHeat ==
    /\ risk' = [fn |-> "heat", activity |-> "none", risk_type |-> "none",
                out |-> calculate_adverse_probability(monthly)]
    /\ UNCHANGED <<fetchVars, mock, load, api, monthly, trend, planb, reqs, genai>>

CalcHeatRoot ==
    /\ risk' = [fn |-> "heat_root", activity |-> "none", risk_type |-> "none",
                out |-> calculate_adverse_probability_root(monthly)]
    /\ UNCHANGED <<fetchVars, mock, load, api, monthly, trend, planb, reqs, genai>>

\* calculate_precipitation_risk dropping the sentinel rows from the caller's
\* frame (monthly_data.drop(..., inplace=True)) before it counts.
CalcPrecipInPlace ==
    /\ monthly' = valid_precip(monthly)
    /\ risk' = [fn |-> "precipitation", activity |-> "none", risk_type |-> "none",
                out |-> calculate_precipitation_risk(monthly)]
    /\ UNCHANGED <<fetchVars, mock, load, api, trend, planb, reqs, genai>>

CalcPrecip ==
    /\ risk' = [fn |-> "precipitation", activity |-> "none", risk_type |-> "none",
                out |-> calculate_precipitation_risk(monthly)]
    /\ UNCHANGED <<fetchVars, mock, load, api, monthly, trend, planb, reqs, genai>>

CalcCold ==
    /\ \E a \in Activities \cup {"hiking"} :
         risk' = [fn |-> "cold", activity |-> a, risk_type |-> "none",
                  out |-> calculate_cold_risk(monthly, a)]
    /\ UNCHANGED <<fetchVars, mock, load, api, monthly, trend, planb, reqs, genai>>

\* The hazards a caller names, and a name that is none of them.
RiskTypes == {"heat", "cold", "precipitation", "invalid_type"}

\* calculate_weather_risk(monthly, risk_type): the result is filed under the
\* hazard it computed.
CalcWeatherRisk ==
    /\ \E t \in RiskTypes :
         risk' = [fn |-> IF t \in {"heat", "cold", "precipitation"} THEN t ELSE "invalid",
                  activity |-> "general", risk_type |-> t,
                  out |-> calculate_weather_risk(monthly, t, "general")]
    /\ UNCHANGED <<fetchVars, mock, load, api, monthly, trend, planb, reqs, genai>>

\* analyze_climate_change_trend(monthly)
AnalyzeTrend ==
    /\ trend' = [done |-> TRUE, out |-> analyze_climate_change_trend(monthly)]
    /\ UNCHANGED <<fetchVars, mock, load, api, monthly, risk, planb, reqs, genai>>

InitRisk ==
    /\ pc = "idle"
    /\ impl = "backend"
    /\ caller = "none"
    /\ args = [start_year |-> 0, end_year |-> 0]
    /\ attempt = 0
    /\ requests = 0
    /\ waits = 0
    /\ outcome = "none"
    /\ resp = NoResp
    /\ result = empty_df
    /\ mock = [exists |-> FALSE, rows |-> << >>]
    /\ load = NoLoad
    /\ api = NoApi
    /\ monthly \in MonthlyFrames
    /\ risk = NoRisk
    /\ trend = NoTrend
    /\ planb = NoPlanB
    /\ reqs = NoRequests
    /\ genai = NoGenai

NextRisk ==
    \/ CalcHeat
    \/ CalcHeatRoot
    \/ CalcPrecip
    \/ CalcCold
    \/ CalcWeatherRisk
    \/ AnalyzeTrend

SpecRisk == InitRisk /\ [][NextRisk]_vars

----------------------------------------------------------------------------
(* The trend analysis on the monthly frames of several years *)

MaxTrendYears == 11

\* A row of a monthly frame that carries the average temperature as well.
TrendRow(y, tmax, tavg) ==
    [Year |-> y, Month |-> 3, Max_Temperature_C |-> tmax, Avg_Temperature_C |-> tavg,
     Precipitation_mm |-> 0]

\* Two kinds of year: the maximum higher with the average lower, and the reverse.
TrendKinds == {<<250, 190>>, <<260, 180>>}

\* One row a year for the first n years from 2004 on, n up to MaxTrendYears.
LongFrames ==
    UNION {{[i \in 1..n |-> TrendRow(2003 + i, k[i][1], k[i][2])] : k \in [1..n -> TrendKinds]}
           : n \in 0..MaxTrendYears}

\* Maximum temperatures that put the difference of two rows on and beside
\* 1.0, 0.5 and -0.5 C, and the sentinel.
TrendTemps == {Sentinel, 240, 245, 246, 250, 254, 255, 259, 260}

\* One or two rows of 2020 and 2021, in the order of their years.
ShortFrames ==
    {<<TrendRow(y, t, 180)>> : y \in {2020, 2021}, t \in TrendTemps}
    \cup {<<TrendRow(r[1], r[2], 180), TrendRow(r[3], r[4], 180)>> :
            r \in {q \in {2020, 2021} \X TrendTemps \X {2020, 2021} \X TrendTemps :
                     q[1] <= q[3]}}

TrendFrames == LongFrames \cup ShortFrames

InitTrend ==
    /\ pc = "idle"
    /\ impl = "backend"
    /\ caller = "none"
    /\ args = [start_year |-> 0, end_year |-> 0]
    /\ attempt = 0
    /\ requests = 0
    /\ waits = 0
    /\ outcome = "none"
    /\ resp = NoResp
    /\ result = empty_df
    /\ mock = [exists |-> FALSE, rows |-> << >>]
    /\ load = NoLoad
    /\ api = NoApi
    /\ monthly \in TrendFrames
    /\ risk = NoRisk
    /\ trend = NoTrend
    /\ planb = NoPlanB
    /\ reqs = NoRequests
    /\ genai = NoGenai

NextTrend == AnalyzeTrend

SpecTrend == InitTrend /\ [][NextTrend]_vars

----------------------------------------------------------------------------
(* The calculators on the daily rows of one calendar month of several years *)

\* The longest monthly frame and the largest number of adverse days in it.
MaxDays == 101
MaxAdverse == 6

\* A January frame of n days of which the first k are rainy and cold and
\* the others dry and warm.
DaysFrame(n, k) ==
    [i \in 1..n |-> IF i <= k THEN Row(2020, 1, 139, 51) ELSE Row(2020, 1, 300, 50)]

DaysFrames == {DaysFrame(n, k) : n \in 1..MaxDays, k \in 0..MaxAdverse}

InitDays ==
    /\ pc = "idle"
    /\ impl = "backend"
    /\ caller = "none"
    /\ args = [start_year |-> 0, end_year |-> 0]
    /\ attempt = 0
    /\ requests = 0
    /\ waits = 0
    /\ outcome = "none"
    /\ resp = NoResp
    /\ result = empty_df
    /\ mock = [exists |-> FALSE, rows |-> << >>]
    /\ load = NoLoad
    /\ api = NoApi
    /\ monthly \in DaysFrames
    /\ risk = NoRisk
    /\ trend = NoTrend
    /\ planb = NoPlanB
    /\ reqs = NoRequests
    /\ genai = NoGenai

NextDays ==
    \/ CalcPrecip
    \/ CalcCold

SpecDays == InitDays /\ [][NextDays]_vars

----------------------------------------------------------------------------
(* Requests served concurrently: a request yields to the other one where it
   blocks (the network call) and between its function calls *)

\* A body of the remote service with a January and a July day.
ConcBody(t, p) ==
    [json |-> TRUE, keys |-> {"properties"}, hasParameter |-> TRUE, vars |-> VarNames,
     T2M_MAX |-> <<[date |-> 20200115, value |-> t], [date |-> 20210715, value |-> 320]>>,
     PRECTOTCORR |-> (20200115 :> p @@ 20210715 :> 70),
     T2M_MIN |-> Dates, T2M |-> Dates]

ConcResponses == {NoResp, ConcBody(310, 60), ConcBody(290, 0)}

\* What a Plan B request can find once the key is configured.
ConcGeminiEnvs ==
    {e \in GeminiEnvs :
        /\ e.available /\ e.api_key # ""
        /\ \/ e.call = "error"
           \/ e.response \in {GeminiResponse("text", FALSE, FALSE, << >>, 0),
                              GeminiResponse("text", FALSE, FALSE, << >>, 2),
                              GeminiResponse("json", FALSE, TRUE, <<"titled">>, 0)}}

NewRequests ==
    {[NoRequest EXCEPT !.kind = "load", !.pc = "new", !.month = m] : m \in LoadMonths}
    \cup {[NoRequest EXCEPT !.kind = "planb", !.pc = "new", !.activity = a] :
             a \in {"beach", "hiking"}}

\* The frame of the other request, in place of the request's own.
FrameOfOther(q) == reqs[3 - q].df

\* The frame the month filter of request q works on: the local variable the
\* request's own fetch_nasa_power_data call returned into.
FrameOf(q) == reqs[q].df

\* fetch_nasa_power_data of request q: the body it receives becomes a frame
\* of its own.
ReqFetch(q) ==
    /\ reqs[q].kind = "load" /\ reqs[q].pc = "new"
    /\ \E r \in ConcResponses :
         reqs' = [reqs EXCEPT ![q].resp = r, ![q].df = fetch_parse_backend(r),
                              ![q].pc = "fetched"]
    /\ UNCHANGED <<fetchVars, mock, load, api, monthly, risk, trend, planb, genai>>

\* The month filter of request q.
ReqFilter(q) ==
    /\ reqs[q].kind = "load" /\ reqs[q].pc = "fetched"
    /\ reqs' = [reqs EXCEPT ![q].monthly_data = month_filter(FrameOf(q), reqs[q].month),
                            ![q].pc = "filtered"]
    /\ UNCHANGED <<fetchVars, mock, load, api, monthly, risk, trend, planb, genai>>

\* The risk calculation and the trend analysis of request q.
ReqRisk(q) ==
    /\ reqs[q].kind = "load" /\ reqs[q].pc = "filtered"
    /\ reqs' = [reqs EXCEPT
                  ![q].risk = calculate_precipitation_risk(reqs[q].monthly_data),
                  ![q].trend = analyze_climate_change_trend(reqs[q].monthly_data),
                  ![q].pc = "done"]
    /\ UNCHANGED <<fetchVars, mock, load, api, monthly, risk, trend, planb, genai>>

\* The result of the generator, or of the fallback when it did not succeed.
PlanOrFallback(env, activity) ==
    LET gemini == generate_plan_b_with_gemini(env)
    IN IF gemini.success THEN gemini ELSE generate_fallback_plan_b(activity, "cold")

\* generate_plan_b_with_gemini of request q up to genai.configure(api_key):
\* without a key it returns at once; with one it stores the key in the
\* package, for every thread of the process.
ReqConfigure(q) ==
    /\ reqs[q].kind = "planb" /\ reqs[q].pc = "new"
    /\ LET api_key == genai.env_key
           env == [NoRequest.env EXCEPT !.available = TRUE]
       IN IF api_key = ""
          THEN /\ reqs' = [reqs EXCEPT ![q].env = env,
                                       ![q].plan_b = PlanOrFallback(env, reqs[q].activity),
                                       ![q].pc = "done"]
               /\ UNCHANGED genai
          ELSE /\ reqs' = [reqs EXCEPT ![q].api_key = api_key, ![q].pc = "configured"]
               /\ genai' = [genai EXCEPT !.api_key = api_key]
    /\ UNCHANGED <<fetchVars, mock, load, api, monthly, risk, trend, planb>>

\* generate_content of request q and what follows it: the call is made with
\* the key the package holds at that moment.
ReqGenerate(q) ==
    /\ reqs[q].kind = "planb" /\ reqs[q].pc = "configured"
    /\ \E e \in ConcGeminiEnvs :
         LET env == [e EXCEPT !.api_key = genai.api_key]
         IN reqs' = [reqs EXCEPT ![q].env = env,
                                 ![q].plan_b = PlanOrFallback(env, reqs[q].activity),
                                 ![q].pc = "done"]
    /\ UNCHANGED <<fetchVars, mock, load, api, monthly, risk, trend, planb, genai>>

InitConc ==
    /\ pc = "idle"
    /\ impl = "backend"
    /\ caller = "none"
    /\ args = [start_year |-> 0, end_year |-> 0]
    /\ attempt = 0
    /\ requests = 0
    /\ waits = 0
    /\ outcome = "none"
    /\ resp = NoResp
    /\ result = empty_df
    /\ mock = [exists |-> FALSE, rows |-> << >>]
    /\ load = NoLoad
    /\ api = NoApi
    /\ monthly = empty_df
    /\ risk = NoRisk
    /\ trend = NoTrend
    /\ planb = NoPlanB
    /\ reqs \in [Requesters -> NewRequests]
    /\ genai \in {[NoGenai EXCEPT !.env_key = k] : k \in {"", "key"}}

NextConc ==
    \E q \in Requesters :
        \/ ReqFetch(q)
        \/ ReqFilter(q)
        \/ ReqRisk(q)
        \/ ReqConfigure(q)
        \/ ReqGenerate(q)

SpecConc == InitConc /\ [][NextConc]_vars

----------------------------------------------------------------------------
(* Properties of the acquisition *)

\* The call has ended with every attempt failed.
GaveUp == pc \in {"done", "fallback", "raised"} /\ outcome # "ok"

\* C1: when every attempt fails exactly 3 requests are made before the remote
\* service is given up; no call makes more than 3; a call whose first attempt
\* succeeds has made one request; and once an attempt has succeeded no
\* further request is made.
C1_ThreeAttempts ==
    /\ [](/\ requests <= 3
          /\ (GaveUp => requests = 3)
          /\ (outcome = "ok" /\ attempt = 0 => requests = 1))
    /\ [][outcome = "ok" => requests' = requests]_vars

\* Three timeouts in a row, after which the call has returned.
C1_Witness == pc = "done" /\ outcome = "Timeout" /\ requests = 3 /\ waits = 2

\* The years the fallback store mock_data.csv covers.
StoreYears == IF mock.exists THEN {mock.rows[i].Year : i \in DOMAIN mock.rows} ELSE {}
RangeOverlapsStore == \E y \in StoreYears : args.start_year <= y /\ y <= args.end_year

Tagged(row) == "is_fallback" \in DOMAIN row /\ row["is_fallback"] = TRUE

\* The returned frame is fallback data: every record tagged, and not empty when
\* the requested years overlap the store.
FallbackReturned ==
    /\ \A i \in DOMAIN result : Tagged(result[i])
    /\ (RangeOverlapsStore => result # << >>)

\* C2: after 3 failed attempts the returned dataset is the fallback dataset:
\* is_fallback on every record, and non-empty whenever the requested years
\* overlap the fallback store's coverage.
C2_FallbackAfterThreeFailures ==
    (pc = "done" /\ outcome # "ok" /\ requests = 3) => FallbackReturned

\* C3: fetch_nasa_power_data never raises to its caller, whatever the remote
\* call did and whether or not the fallback store is there.
C3_NeverRaises == pc # "raised"

\* What the running version returns once it has given up the remote service.
GivenUpResult == IF impl = "backend" THEN empty_df ELSE mock.rows

\* The rows the loop over the response builds.
ResponseRows(r) ==
    LET rs == records(temp_data(r), precip_data(r)) IN {rs[i] : i \in DOMAIN rs}

Parsed == pc = "done" /\ outcome = "ok" /\ resp.json

\* C4: a parsed response that omits one of the four variables ends as a
\* transport failure does; its rows are not returned as a partial success.
C4_MissingVariableIsFailure ==
    (Parsed /\ HasStructure(resp) /\ resp.vars # VarNames)
        => /\ result = GivenUpResult
           /\ \A i \in DOMAIN result : result[i] \notin ResponseRows(resp)

\* C5: a response with an error/message field, or without
\* properties.parameter, is rejected: the fallback dataset is returned in its
\* place and none of its rows is.
C5_ErrorResponseRejected ==
    (Parsed /\ (HasKey(resp, "messages") \/ HasKey(resp, "message") \/ ~HasStructure(resp)))
        => /\ FallbackReturned
           /\ \A i \in DOMAIN result : result[i] \notin ResponseRows(resp)

\* C6: coordinates out of range are raised to the caller of
\* load_historical_data, and POST /api/risk does not answer 200 for them.
C6_InvalidCoordinatesRaised ==
    /\ (load.status = "returned" /\ ~ValidCoordinates(load.lat, load.lon) => load.raised)
    /\ (api.status_code # 0 /\ ~ValidCoordinates(api.lat, api.lon) => api.status_code # 200)

\* The dates for which the response has all four variables.
CompleteDates(r) ==
    IF r.vars # VarNames THEN {}
    ELSE {d \in Dates : /\ \E i \in DOMAIN r.T2M_MAX : r.T2M_MAX[i].date = d
                        /\ d \in DOMAIN r.PRECTOTCORR
                        /\ d \in r.T2M_MIN
                        /\ d \in r.T2M}

\* C7: no returned row holds a missing value or the -999 sentinel, and a row
\* built from the response comes from a date that has all four variables.
C7_RowsCompleteAndObserved ==
    pc = "done" =>
        \A i \in DOMAIN result :
            /\ result[i].Max_Temperature_C \notin {None, Sentinel}
            /\ result[i].Precipitation_mm \notin {None, Sentinel}
            /\ (Parsed /\ result[i] \in ResponseRows(resp)
                  => \E d \in CompleteDates(resp) :
                        result[i].Year = DateYear(d) /\ result[i].Month = DateMonth(d))

----------------------------------------------------------------------------
(* Properties of the risk calculators *)

Count(df, Test(_)) == Cardinality({i \in DOMAIN df : Test(df[i])})

ObservedTemp(r) == r.Max_Temperature_C # Sentinel
ObservedPrecip(r) == r.Precipitation_mm # Sentinel

Answered == risk.fn # "none" /\ ~risk.out.raised

\* C8: heat counts the observed days above 30.0 C and reports 30.0 as its
\* threshold; precipitation counts the observed days above 5.0 mm.
C8_FixedThresholds ==
    /\ (Answered /\ risk.fn \in {"heat", "heat_root"} /\ Count(monthly, ObservedTemp) > 0
          => /\ risk.out.adverse_count =
                   Count(monthly, LAMBDA r : ObservedTemp(r) /\ r.Max_Temperature_C > 300)
             /\ risk.out.risk_threshold = 300)
    /\ (Answered /\ risk.fn = "precipitation" /\ Count(monthly, ObservedPrecip) > 0
          => risk.out.adverse_count =
                   Count(monthly, LAMBDA r : ObservedPrecip(r) /\ r.Precipitation_mm > 50))

Observed(fn, r) == IF fn = "precipitation" THEN ObservedPrecip(r) ELSE ObservedTemp(r)

\* C10: total_observations is the number of observed rows, and the
\* probability is 100 * adverse / total over those rows.
C10_TotalsOverValidRows ==
    Answered =>
        LET valid == Count(monthly, LAMBDA r : Observed(risk.fn, r))
        IN /\ risk.out.total_observations = valid
           /\ (valid > 0 => risk.out.probability = Round(1000 * risk.out.adverse_count, valid))

\* C11: whatever the frame and the hazard, a returned result has its
\* probability between 0 and 100 percent and its adverse count between 0 and
\* the total number of observations.
C11_ProbabilityAndCountsBounded ==
    Answered =>
        /\ 0 <= risk.out.probability /\ risk.out.probability <= 1000
        /\ 0 <= risk.out.adverse_count
        /\ risk.out.adverse_count <= risk.out.total_observations

\* A cold day, a sentinel row and a warm day in July: one cold day of three.
C11_Witness ==
    /\ risk.fn = "cold" /\ risk.activity = "general"
    /\ monthly = <<Row(2020, 7, 139, 51), Row(2020, 7, Sentinel, 51), Row(2020, 7, 300, 51)>>
    /\ risk.out.adverse_count = 1
    /\ risk.out.total_observations = 3
    /\ risk.out.probability = 333

\* The ladder of the claim on the probability 100 * adverse / total percent.
LadderLevel(adverse, total) ==
    CASE 100 * adverse >= 20 * total -> "HIGH"
      [] 100 * adverse < 20 * total /\ 100 * adverse >= 10 * total -> "MODERATE"
      [] 100 * adverse < 10 * total /\ 100 * adverse >= 5 * total -> "LOW"
      [] OTHER -> "MINIMAL"

\* C12: for heat, cold and precipitation alike the risk level of a result
\* that carries a probability is the ladder's level for that probability:
\* High from 20, Moderate from 10, Low from 5, Minimal below.
C12_LevelFromProbability ==
    Answered /\ risk.out.total_observations > 0 /\ risk.out.risk_level # "UNKNOWN"
        => risk.out.risk_level =
               LadderLevel(risk.out.adverse_count, risk.out.total_observations)

\* C13: on a frame with no observed row of the column it reads (the empty
\* frame included) a calculation raises nothing and answers probability 0,
\* no observations, no adverse day and the level Unknown.
C13_TotalOnBadData ==
    risk.fn \in {"heat", "heat_root", "cold", "precipitation"}
        /\ Count(monthly, LAMBDA r : Observed(risk.fn, r)) = 0
        => /\ ~risk.out.raised
           /\ risk.out.probability = 0
           /\ risk.out.total_observations = 0
           /\ risk.out.adverse_count = 0
           /\ risk.out.risk_level = "UNKNOWN"

\* C14: the unified calculator asked for anything but heat, cold or
\* precipitation raises; it answers no result, Unknown or other.
C14_InvalidHazardRaises ==
    risk.risk_type \notin {"none", "heat", "cold", "precipitation"} => risk.out.raised

\* An unknown risk type on a frame that every hazard can answer.
C14_Witness ==
    /\ risk.risk_type = "invalid_type"
    /\ risk.out.raised
    /\ monthly = <<Row(2020, 1, 301, 51)>>

\* The frame without the rows that hold the sentinel in some variable.
WithoutSentinelRows(df) ==
    SelectSeq(df, LAMBDA r : r.Max_Temperature_C # Sentinel /\ r.Precipitation_mm # Sentinel)

\* C15: a result computed on a frame with sentinel rows is, field by field,
\* the result the same calculation gives on the frame without those rows;
\* so for the heat, cold and precipitation results and for the trend.
C15_SentinelRowsAreIgnored ==
    LET clean == WithoutSentinelRows(monthly)
    IN /\ (risk.fn \in {"heat", "heat_root", "cold", "precipitation"}
             => risk.out = CASE risk.fn = "heat" -> calculate_adverse_probability(clean)
                             [] risk.fn = "heat_root" -> calculate_adverse_probability_root(clean)
                             [] risk.fn = "cold" -> calculate_cold_risk(clean, risk.activity)
                             [] risk.fn = "precipitation" -> calculate_precipitation_risk(clean))
       /\ (trend.done => trend.out = analyze_climate_change_trend(clean))

----------------------------------------------------------------------------
(* Properties of the trend analysis *)

DistinctYears(df) == {df[i].Year : i \in DOMAIN df}

Classifications == {"SIGNIFICANT_WARMING", "WARMING_TREND", "STABLE", "COOLING_TREND"}

ZeroFields(out) == out.historical_mean = 0 /\ out.recent_mean = 0 /\ out.difference = 0

\* C16: the empty frame gives Unknown, a frame of fewer than 10 distinct
\* years gives InsufficientData, both with zeroed numbers, and a frame of 10
\* or more distinct years gives one of the four classifications.
C16_InsufficientBelowTenYears ==
    trend.done =>
        LET n == Cardinality(DistinctYears(monthly))
        IN /\ (monthly = << >>
                 => trend.out.trend_status = "UNKNOWN" /\ ZeroFields(trend.out))
           /\ (monthly # << >> /\ n < 10
                 => trend.out.trend_status = "INSUFFICIENT_DATA" /\ ZeroFields(trend.out))
           /\ (n >= 10 => trend.out.trend_status \in Classifications)

\* The first 5 and the last 5 of the distinct years in ascending order.
EarlyYears(df) ==
    {y \in DistinctYears(df) : Cardinality({z \in DistinctYears(df) : z < y}) < 5}
RecentYears(df) ==
    {y \in DistinctYears(df) : Cardinality({z \in DistinctYears(df) : z > y}) < 5}

RowsOfYears(df, years) == SelectSeq(df, LAMBDA r : r.Year \in years)

\* The mean of a column over a non-empty frame, in hundredths.
MeanOf(df, col) == Round(10 * Sum(df, col), Len(df))

\* C17: with 10 or more distinct years the two means are those of the rows
\* of the first 5 and of the last 5 years (of one temperature column), the
\* two periods share no year, and the rows of the years between them change
\* nothing: the frame without them gives the same result.
C17_FirstFiveAgainstLastFive ==
    trend.done /\ Cardinality(DistinctYears(monthly)) >= 10 =>
        LET early == RowsOfYears(monthly, EarlyYears(monthly))
            recent == RowsOfYears(monthly, RecentYears(monthly))
        IN /\ EarlyYears(monthly) \cap RecentYears(monthly) = {}
           /\ \E col \in {"Max_Temperature_C", "Avg_Temperature_C"} :
                 /\ trend.out.historical_mean = MeanOf(early, col)
                 /\ trend.out.recent_mean = MeanOf(recent, col)
           /\ trend.out = analyze_climate_change_trend(
                  RowsOfYears(monthly, EarlyYears(monthly) \cup RecentYears(monthly)))

\* C18: the two means are means of Avg_Temperature_C, so on a frame of 10 or
\* more years whose rows all hold the same average temperature both means
\* are that temperature and the difference is zero; and the difference is
\* the recent mean less the early one (to the hundredth that rounding allows).
C18_MeansOfAverageTemperature ==
    trend.done /\ Cardinality(DistinctYears(monthly)) >= 10 =>
        /\ \A a \in {monthly[i].Avg_Temperature_C : i \in DOMAIN monthly} :
              (\A i \in DOMAIN monthly : monthly[i].Avg_Temperature_C = a)
                 => /\ trend.out.historical_mean = 10 * a
                    /\ trend.out.recent_mean = 10 * a
                    /\ trend.out.difference = 0
        /\ LET d == trend.out.difference - (trend.out.recent_mean - trend.out.historical_mean)
           IN -1 <= d /\ d <= 1

\* The two periods analyze_climate_change_trend compares, and their
\* difference recent mean - earlier mean as the fraction DiffNum / DiffDen of
\* a tenth of a degree.
LatestYearRows(df) ==
    SelectSeq(df, LAMBDA r : \A i \in DOMAIN df : df[i].Year <= r.Year)
EarlierYearRows(df) ==
    SelectSeq(df, LAMBDA r : \E i \in DOMAIN df : df[i].Year > r.Year)
DiffNum(df) ==
    Sum(LatestYearRows(df), "Max_Temperature_C") * Len(EarlierYearRows(df))
        - Sum(EarlierYearRows(df), "Max_Temperature_C") * Len(LatestYearRows(df))
DiffDen(df) == Len(LatestYearRows(df)) * Len(EarlierYearRows(df))

\* C19: a classified trend has the status of its difference: from 1.0 C
\* SignificantWarming, from 0.5 C and below 1.0 C WarmingTrend, at -0.5 C or
\* lower CoolingTrend, strictly between -0.5 and 0.5 C Stable.
C19_StatusFromDifference ==
    trend.done /\ trend.out.trend_status \in Classifications =>
        LET num == DiffNum(monthly)
            den == DiffDen(monthly)
            status == trend.out.trend_status
        IN /\ den > 0
           /\ (status = "SIGNIFICANT_WARMING") = (num >= 10 * den)
           /\ (status = "WARMING_TREND") = (num >= 5 * den /\ num < 10 * den)
           /\ (status = "COOLING_TREND") = (num <= -5 * den)
           /\ (status = "STABLE") = (num > -5 * den /\ num < 5 * den)

\* 25.0 C in 2020 and 26.0 C in 2021: a difference of exactly 1.0 C.
C19_Witness ==
    /\ trend.done
    /\ monthly = <<TrendRow(2020, 250, 180), TrendRow(2021, 260, 180)>>
    /\ trend.out.difference = 100
    /\ trend.out.trend_status = "SIGNIFICANT_WARMING"

----------------------------------------------------------------------------
(* Properties of the month filter *)

\* How many times the row occurs in the frame.
Occurrences(df, row) == Cardinality({i \in DOMAIN df : df[i] = row})

\* C20: what a load function returns is the fetched frame filtered by month:
\* every row of it is a fetched row of the month asked for, every fetched
\* row of that month is in it as often as it was fetched, and when no row
\* matches (a month outside 1..12 included) it is empty and nothing is raised.
C20_MonthFilterExact ==
    load.status = "returned" =>
        /\ ~load.raised
        /\ \A i \in DOMAIN load.data :
              /\ load.data[i].Month = load.month
              /\ Occurrences(result, load.data[i]) > 0
        /\ \A j \in DOMAIN result :
              result[j].Month = load.month
                 => Occurrences(load.data, result[j]) = Occurrences(result, result[j])
        /\ ((\A j \in DOMAIN result : result[j].Month # load.month) => load.data = << >>)
        /\ (load.month \notin 1..12 => load.data = << >>)

\* A fetch of a January and a July row, of which the July row is returned.
C20_Witness ==
    /\ load.status = "returned" /\ load.month = 7
    /\ Len(result) = 2 /\ result[1].Month = 1 /\ result[2].Month = 7
    /\ load.data = <<result[2]>>

\* A month outside 1..12: the empty frame.
C20_WitnessNoMatch ==
    load.status = "returned" /\ load.month = 13 /\ load.data = << >>

----------------------------------------------------------------------------
(* Purity of the calculations *)

----------------------------------------------------------------------------
(* Further properties of the acquisition *)

\* The call has ended on the fallback path: every attempt failed, or the body
\* of the response was rejected.
FellBack == pc \in {"done", "raised"} /\ (outcome # "ok" \/ fetch_raises_root(resp))

\* C22: the dataset returned on the fallback path holds only records of the
\* years start_year..end_year, is empty when the range meets no stored year,
\* and the fallback load raises nothing.
C22_FallbackWithinYearRange ==
    FellBack =>
        /\ pc = "done"
        /\ \A i \in DOMAIN result :
              args.start_year <= result[i].Year /\ result[i].Year <= args.end_year
        /\ (~RangeOverlapsStore => result = << >>)

\* C23: a body that is no JSON, or lacks properties.parameter or one of the
\* variables, is retried as a transport failure is: the call ends on it only
\* after 3 requests and the 2 waits between them.
C23_BadBodyIsRetried ==
    (pc \in {"done", "fallback", "raised"} /\ outcome = "ok"
        /\ (~resp.json \/ ~HasStructure(resp) \/ resp.vars # VarNames))
        => requests = 3 /\ waits = 2

\* C24: the years a load function asks fetch_nasa_power_data for, for an
\* event date, are an ordered range that ends before the year of the event:
\* start_year <= end_year < target year.
C24_RangeEndsBeforeTargetYear ==
    (load.status = "fetching"
        /\ load.fn \in {"load_historical_data", "load_historical_data_by_date"})
        => args.start_year <= args.end_year /\ args.end_year < load.year

\* The seasons of the table's comments: summer 3 (December to February),
\* autumn and spring 2, winter 1 (June to August).
SeasonWarmth(month) ==
    IF month \in {12, 1, 2} THEN 3 ELSE IF month \in {6, 7, 8} THEN 1 ELSE 2

\* C25: the cold threshold a cold risk result carries is monotone in the
\* table: it is never lower than the same activity's threshold of a month of
\* a colder or equal season, and in the frame's month beach >= general >=
\* picnic >= running.
C25_ThresholdTableMonotone ==
    (risk.fn = "cold" /\ risk.out.total_observations > 0 /\ ~risk.out.raised)
        => LET month == monthly[1].Month
               th(a) == get_seasonal_cold_threshold(month, a)
           IN /\ \A m2 \in 1..12 :
                    SeasonWarmth(month) >= SeasonWarmth(m2)
                        => risk.out.risk_threshold
                             >= get_seasonal_cold_threshold(m2, risk.activity)
              /\ th("beach") >= th("general")
              /\ th("general") >= th("picnic")
              /\ th("picnic") >= th("running")

\* C30: in the retry loop a wait happens only after a failed attempt that is
\* not the last one. Before a request there have been as many waits as
\* requests, after it one fewer; a wait is taken only from a failed attempt
\* before the last and leads to the next request; no wait is pending after a
\* success or after the third request.
C30_WaitOnlyBetweenAttempts ==
    /\ [](IF pc \in {"idle", "request"} THEN waits = requests
                                        ELSE waits = requests - 1)
    /\ [](pc = "sleep" => outcome # "ok" /\ requests < max_retries)
    /\ [][waits' # waits
            => /\ waits' = waits + 1
               /\ outcome # "ok" /\ attempt < max_retries - 1
               /\ pc = "sleep" /\ pc' = "request"]_vars
    /\ [][requests' # requests /\ requests > 0 => waits = requests]_vars

\* The second attempt succeeded after one wait, and nothing waits after it.
C30_Witness ==
    pc = "parse" /\ outcome = "ok" /\ requests = 2 /\ waits = 1

----------------------------------------------------------------------------
(* The level against the reported probability *)

\* The ladder read on the reported probability, in tenths of a percent.
LevelOfReported(probability) ==
    IF probability >= 200 THEN "HIGH"
    ELSE IF probability >= 100 THEN "MODERATE"
    ELSE IF probability >= 50 THEN "LOW"
    ELSE "MINIMAL"

\* C29: the risk_level of a precipitation or cold risk result agrees with
\* the probability it reports, rounded to one decimal: >= 20.0 HIGH,
\* >= 10.0 MODERATE, >= 5.0 LOW, below that MINIMAL.
C29_LevelAgreesWithReported ==
    (risk.fn \in {"precipitation", "cold"} /\ ~risk.out.raised
        /\ risk.out.risk_level # "UNKNOWN")
        => risk.out.risk_level = LevelOfReported(risk.out.probability)

----------------------------------------------------------------------------
(* Properties of Plan B *)

\* The result the endpoint went on with: the fallback's when it was called,
\* the Gemini generator's otherwise.
PlanUsed == IF planb.fallback_called THEN planb.fallback ELSE planb.gemini

\* C27: POST /planb answers a risk_level other than MODERATE and HIGH with
\* success and no suggestion, without calling a generator; for MODERATE and
\* HIGH, when no exception occurs, it answers exactly 3 suggestions: the
\* first alternatives of the generator, then placeholders.
C27_PlanBThreeOrNone ==
    planb.endpoint = "planb" =>
        IF planb.risk_level \notin {"MODERATE", "HIGH"}
        THEN /\ planb.success /\ planb.items = << >>
             /\ ~planb.gemini_called /\ ~planb.fallback_called
        ELSE /\ planb.gemini_called
             /\ planb.success =>
                   /\ Len(planb.items) = 3
                   /\ \A n \in 1..3 :
                         planb.items[n] = IF n <= Len(PlanUsed.alternatives)
                                          THEN PlanUsed.alternatives[n]
                                          ELSE PlaceholderName(n)

\* The generator gave one alternative and the answer is padded to three.
C27_Witness ==
    /\ planb.endpoint = "planb" /\ planb.risk_level = "HIGH"
    /\ planb.gemini.success /\ Len(planb.gemini.alternatives) = 1
    /\ planb.items = <<"Thermal Baths Day", "Alternative 2", "Alternative 3">>

\* The generator gave four alternatives and the answer holds the first three.
C27_WitnessTruncated ==
    /\ planb.endpoint = "planb" /\ planb.risk_level = "MODERATE"
    /\ planb.gemini.success /\ Len(planb.gemini.alternatives) = 4
    /\ Len(planb.items) = 3

\* The generator can see that it will fail: no package, no key, an error of
\* the call, a text that cannot be read or holds neither valid JSON
\* alternatives nor a keyword line.
GeminiCannotAnswer(env) ==
    \/ ~env.available
    \/ env.api_key = ""
    \/ env.call = "error"
    \/ env.response.text_raises
    \/ (~JsonAccepted(env.response) /\ env.response.keyword_lines = 0)

\* C28: generate_plan_b_with_gemini never raises: each of its failures is a
\* result with success False; the endpoint then calls
\* generate_fallback_plan_b, which succeeds with at least one alternative
\* whatever the activity and the weather condition are, and the endpoint
\* answers with them.
C28_PlanBDegradesToFallback ==
    planb.gemini_called =>
        /\ ~planb.gemini.raised
        /\ GeminiCannotAnswer(planb.env) => ~planb.gemini.success
        /\ ~planb.gemini.success =>
              /\ planb.gemini.alternatives = << >>
              /\ planb.fallback_called
              /\ planb.fallback.success
              /\ Len(planb.fallback.alternatives) >= 1
              /\ planb.success
              /\ Len(planb.items) >= 1
        /\ planb.gemini.success => ~planb.fallback_called

\* An answer of Gemini that cannot be parsed, for an activity and a
\* condition the table does not know: the two general alternatives.
C28_Witness ==
    /\ planb.endpoint = "regenerate" /\ planb.activity = "hiking"
    /\ planb.weather_condition = "hot"
    /\ planb.env.call = "ok" /\ planb.env.response.kind = "text"
    /\ ~planb.gemini.success /\ planb.fallback_called
    /\ planb.items = <<"Museo Nacional de Artes Visuales", "Teatro Solis">>

----------------------------------------------------------------------------
(* Concurrent requests *)

\* What request q computes when it runs alone: its own month of the frame
\* of the body it received, and the plan for what the generator found under
\* the key of the process environment.
AloneMonthly(q) == month_filter(fetch_parse_backend(reqs[q].resp), reqs[q].month)

AlonePlan(q) ==
    PlanOrFallback([reqs[q].env EXCEPT !.api_key = genai.env_key], reqs[q].activity)

\* C26: under every interleaving of the steps of two requests, a finished
\* request holds the result it computes when it runs alone: the frame, the
\* risk and the trend of the body it received itself, the plan of what its
\* own generator call found.
C26_NoCrossTalk ==
    \A q \in Requesters :
        reqs[q].pc = "done" =>
            IF reqs[q].kind = "load"
            THEN /\ reqs[q].monthly_data = AloneMonthly(q)
                 /\ reqs[q].risk = calculate_precipitation_risk(AloneMonthly(q))
                 /\ reqs[q].trend = analyze_climate_change_trend(AloneMonthly(q))
            ELSE /\ reqs[q].env.api_key = genai.env_key
                 /\ reqs[q].plan_b = AlonePlan(q)

\* Two requests for the same month that received different bodies have both
\* finished, each with the risk of its own body.
C26_Witness ==
    /\ reqs[1].kind = "load" /\ reqs[2].kind = "load"
    /\ reqs[1].pc = "done" /\ reqs[2].pc = "done"
    /\ reqs[1].month = 1 /\ reqs[2].month = 1
    /\ reqs[1].resp = ConcBody(310, 60) /\ reqs[2].resp = ConcBody(290, 0)
    /\ reqs[1].risk.adverse_count = 1 /\ reqs[2].risk.adverse_count = 0

\* Two Plan B requests have both stored the key before either made its call.
C26_WitnessPlanB ==
    /\ reqs[1].kind = "planb" /\ reqs[2].kind = "planb"
    /\ reqs[1].pc = "done" /\ reqs[2].pc = "configured"
    /\ reqs[1].plan_b.alternatives = <<"Thermal Baths Day">>

====
